---- MODULE Spec2Model ----
(***************************************************************************)
(* TNGDSearch (api/app/clients/tools/TNGDSearch.js): a langchain Tool that *)
(* embeds a query with Azure OpenAI, queries a Pinecone index with the     *)
(* vector and formats the matches as text.                                 *)
(*                                                                         *)
(* Two specifications:                                                     *)
(*   SpecNew  the constructor, over every combination of override fields  *)
(*            and environment variables;                                   *)
(*   Spec     NumCalls invocations of _call on one constructed tool,       *)
(*            interleaved at their two awaits, the two services answering  *)
(*            each request with any outcome.                               *)
(*                                                                         *)
(* JavaScript values are records [type, val]; a vector [0.1, 0.2] is the   *)
(* tuple of its components in tenths.                                      *)
(***************************************************************************)
EXTENDS Naturals, Sequences, FiniteSets

VARIABLES
    fields,        \* the constructor's argument
    env,           \* process.env
    ctor,          \* "new" | "constructed" | "threw"
    ctorError,     \* the message of the Error the constructor threw
    this,          \* the tool object
    pc,            \* per invocation: "idle" | "embedding" | "querying" | "returned" | "threw"
    data,          \* per invocation: the argument of _call
    query,         \* per invocation: const query (line 65)
    embeddings,    \* per invocation: const embeddings (line 68)
    resultString,  \* per invocation: let resultString (line 76)
    outcome,       \* per invocation: how the promise of _call settled
    embedCalls,    \* per invocation: the getEmbeddings requests it issued
    queryCalls,    \* per invocation: the index.query requests it issued
    embedResp,     \* per invocation: what getEmbeddings settled with
    queryResp,     \* per invocation: what index.query settled with
    logged,        \* per invocation: what it passed to logger.error
    overlapped     \* history: some invocation began while another was in flight

ctorVars == <<fields, env, ctor, ctorError, this>>
callVars == <<pc, data, query, embeddings, resultString, outcome,
              embedCalls, queryCalls, embedResp, queryResp, logged, overlapped>>
vars == <<fields, env, ctor, ctorError, this, pc, data, query, embeddings,
          resultString, outcome, embedCalls, queryCalls, embedResp,
          queryResp, logged, overlapped>>

(***************************************************************************)
(* Bounds                                                                  *)
(***************************************************************************)
NumCalls == 2
Calls == 1..NumCalls

(***************************************************************************)
(* JavaScript values                                                       *)
(***************************************************************************)
Undefined == [type |-> "undefined", val |-> ""]
Str(s) == [type |-> "string", val |-> s]
Num(s) == [type |-> "number", val |-> s]

\* ToBoolean: undefined and '' are falsy, every other string is truthy.
Truthy(v) == v.type = "string" /\ v.val # ""

\* a || b
Or(a, b) == IF Truthy(a) THEN a ELSE b

(***************************************************************************)
(* The constructor                                                         *)
(***************************************************************************)
DEFAULT_PINECONE_INDEX == Str("large-index")

MissingPinecone == "Missing PINECONE_PROJECT_API_KEY environment variable."
MissingOpenAI == "Missing OPENAI_API_KEY environment variable."
\* The Error of new AzureKeyCredential(key) for a key it rejects.
CredentialError == "key must be a non-empty string"

ZodSchema == "z.object({ query: z.string() })"

ConfigNames == {"PINECONE_PROJECT_API_KEY", "PINECONE_INDEX_NAME",
                "AZURE_API_KEY", "AZURE_HOST"}

\* The object before the constructor body runs.
Blank ==
    [name |-> "", pineconeApiKey |-> Undefined, pineconeIndex |-> Undefined,
     openAIApiKey |-> Undefined, openAIHost |-> Undefined,
     openAIClient |-> [made |-> FALSE, endpoint |-> Undefined, key |-> Undefined],
     client |-> [made |-> FALSE, apiKey |-> Undefined],
     index |-> [made |-> FALSE, name |-> Undefined],
     schema |-> ""]

\* Lines 15-26: the name and the four configuration fields.
Resolve(f, e) ==
    [Blank EXCEPT
       !.name = "pinecone",
       !.pineconeApiKey = Or(f.PINECONE_PROJECT_API_KEY, e.PINECONE_PROJECT_API_KEY),
       !.pineconeIndex = Or(Or(f.PINECONE_INDEX_NAME, e.PINECONE_INDEX_NAME),
                            DEFAULT_PINECONE_INDEX),
       !.openAIApiKey = Or(f.AZURE_API_KEY, e.AZURE_API_KEY),
       !.openAIHost = Or(f.AZURE_HOST, e.AZURE_HOST)]

\* new AzureKeyCredential(key) (line 30) is library code.  It takes a truthy
\* key; what it does with a falsy one is the library's choice: the outcomes
\* are that it accepts the key or that it throws.
CredentialRejects(key) == IF Truthy(key) THEN {FALSE} ELSE {FALSE, TRUE}

\* Lines 33-39 without the second check.
CheckKeysPineconeOnly(pineconeApiKey, openAIApiKey) ==
    IF ~Truthy(pineconeApiKey) THEN MissingPinecone ELSE ""

\* Lines 33-39: the message of the Error thrown, "" when none is.
CheckKeys(pineconeApiKey, openAIApiKey) ==
    IF ~Truthy(pineconeApiKey) THEN MissingPinecone
    ELSE IF ~Truthy(openAIApiKey) THEN MissingOpenAI
    ELSE ""

\* new TNGDSearch(f) under process.env = e, the credential constructor
\* rejecting the key or not: the object as the constructor left it and the
\* message of the Error it threw ("" when it returned).
TNGDSearch(f, e, rejects) ==
    LET t1 == Resolve(f, e)
        t2 == [t1 EXCEPT !.openAIClient =
                  [made |-> TRUE, endpoint |-> t1.openAIHost, key |-> t1.openAIApiKey]]
        t3 == [t2 EXCEPT
                 !.client = [made |-> TRUE, apiKey |-> t2.pineconeApiKey],
                 !.index = [made |-> TRUE, name |-> t2.pineconeIndex],
                 !.schema = ZodSchema]
    IN  IF rejects THEN [object |-> t1, error |-> CredentialError]
        ELSE IF CheckKeys(t2.pineconeApiKey, t2.openAIApiKey) # ""
             THEN [object |-> t2,
                   error |-> CheckKeys(t2.pineconeApiKey, t2.openAIApiKey)]
        ELSE [object |-> t3, error |-> ""]

KeyValues == {Undefined, Str(""), Str("key")}
NameValues == {Undefined, Str("set")}

\* Every combination of override fields, and of environment variables.
Configs ==
    [PINECONE_PROJECT_API_KEY : KeyValues, PINECONE_INDEX_NAME : NameValues,
     AZURE_API_KEY : KeyValues, AZURE_HOST : NameValues]

NoConfig ==
    [PINECONE_PROJECT_API_KEY |-> Undefined, PINECONE_INDEX_NAME |-> Undefined,
     AZURE_API_KEY |-> Undefined, AZURE_HOST |-> Undefined]

(***************************************************************************)
(* The two services                                                        *)
(***************************************************************************)
TopK == 3

V1 == <<1, 2>>
V2 == <<3, 4>>

ServiceErrors == {"ETIMEDOUT", "401 Unauthorized"}

\* What getEmbeddings settles with: a rejection, or a response whose data
\* holds no record, one record, or two.
EmbeddingResponses ==
    {[kind |-> "throw", error |-> e, data |-> <<>>] : e \in ServiceErrors}
    \cup {[kind |-> "ok", error |-> "", data |-> d] :
             d \in {<<>>, <<[embedding |-> V1]>>,
                    <<[embedding |-> V2], [embedding |-> V1]>>}}

MatchPool ==
    {[metadata |-> [page_title |-> "Paris", content |-> "Paris is the capital."]],
     [metadata |-> [page_title |-> "France", content |-> "France is a country."]]}

\* The index holds the records of MatchPool: it answers a topK query with at
\* most topK of them, each at most once, in the order of its ranking.
MatchSeqs ==
    {m \in UNION {[1..n -> MatchPool] : n \in 0..TopK} :
        \A j, k \in DOMAIN m : m[j] = m[k] => j = k}

\* What index.query settles with.
QueryResponses ==
    {[kind |-> "throw", error |-> e, matches |-> <<>>] : e \in ServiceErrors}
    \cup {[kind |-> "ok", error |-> "", matches |-> m] : m \in MatchSeqs}

NoEmbeddingResponse == [kind |-> "none", error |-> "", data |-> <<>>]
NoQueryResponse == [kind |-> "none", error |-> "", matches |-> <<>>]

(***************************************************************************)
(* _call                                                                   *)
(***************************************************************************)
NoResults == "No results found for the query."
ErrorText == "There was an error with the Pinecone search."
ZodError == "ZodError"
TypeError == "TypeError: Cannot read properties of undefined (reading 'embedding')"

\* The arguments _call is given: no query field, a number, '', a text.
Inputs ==
    {[query |-> Undefined], [query |-> Num("42")], [query |-> Str("")],
     [query |-> Str("capital of France")]}

Pending == [kind |-> "pending", text |-> "", error |-> ""]
Returned(text) == [kind |-> "return", text |-> text, error |-> ""]
Thrown(error) == [kind |-> "throw", text |-> "", error |-> error]

\* A schema that coerces: z.coerce.string() is String(value).
SchemaParseCoerce(d) ==
    [ok |-> TRUE,
     query |-> IF d.query.type = "undefined" THEN "undefined" ELSE d.query.val,
     error |-> ""]

\* this.schema.parse(data) (line 65, schema of lines 52-54): z.string() takes
\* every string and nothing else.
SchemaParse(d) ==
    IF d.query.type = "string"
    THEN [ok |-> TRUE, query |-> d.query.val, error |-> ""]
    ELSE [ok |-> FALSE, query |-> "", error |-> ZodError]

\* The catch block with the other sentinel.
CatchNoResults(error) == Returned(NoResults)

\* A catch block that logs and rethrows.
CatchRethrow(error) == Thrown(error)

\* Lines 89-92: the catch block's return value.
Catch(error) == Returned(ErrorText)

\* The parse inside the try block.
ParseInsideTry(error) == Catch(error)

\* Line 65 stands before the try block: its error rejects the promise.
ParseOutsideTry(error) == Thrown(error)

\* Line 59: the request to the embedding service.
EmbeddingsRequest(t, q) ==
    [client |-> t.openAIClient, model |-> "text-embedding-3-large", input |-> q]

\* The last record's vector.
LastEmbedding(r) ==
    IF r.kind = "throw" THEN [ok |-> FALSE, value |-> <<>>, error |-> r.error]
    ELSE IF r.data = <<>> THEN [ok |-> FALSE, value |-> <<>>, error |-> TypeError]
    ELSE [ok |-> TRUE, value |-> r.data[Len(r.data)].embedding, error |-> ""]

\* Lines 57-62, queryToEmbeddings once getEmbeddings settled with r: the
\* rejection passes through, data.data[0] of an empty data is undefined and
\* reading its embedding throws, else the first record's vector.
QueryToEmbeddings(r) ==
    IF r.kind = "throw" THEN [ok |-> FALSE, value |-> <<>>, error |-> r.error]
    ELSE IF r.data = <<>> THEN [ok |-> FALSE, value |-> <<>>, error |-> TypeError]
    ELSE [ok |-> TRUE, value |-> r.data[1].embedding, error |-> ""]

\* Lines 70-74: the request to the index.
QueryRequest(t, v) ==
    [index |-> t.index, vector |-> v, topK |-> TopK, includeMetadata |-> TRUE]

\* The accumulator kept from an earlier invocation instead of declared anew.
ResultStringKept(rs, i) == rs[1]

\* Line 76: let resultString = ''.
ResultStringDeclared(rs, i) == ""

\* Line 83: the fragment of one match.
Fragment(result) ==
    "Page Title: " \o result.metadata.page_title \o " Content: "
        \o result.metadata.content \o " "

\* A loop body that puts the fragment in front.
LoopBodyPrepend(st, result) ==
    [resultString |-> Fragment(result) \o st.resultString,
     firstResult |-> IF st.firstResult = <<>> THEN <<result>> ELSE st.firstResult]

\* Lines 80-83: one iteration; firstResult is <<>> for null.
LoopBody(st, result) ==
    [resultString |-> st.resultString \o Fragment(result),
     firstResult |-> IF st.firstResult = <<>> THEN <<result>> ELSE st.firstResult]

RECURSIVE Loop(_, _)
\* Lines 79-84: for (const result of results.matches).
Loop(st, matches) ==
    IF matches = <<>> THEN st
    ELSE Loop(LoopBody(st, Head(matches)), Tail(matches))

\* Line 88 alone.
ReturnValueUnchecked(st) == Returned(st.resultString)

\* Lines 85-88.
ReturnValue(st) ==
    IF st.firstResult = <<>> THEN Returned(NoResults)
    ELSE Returned(st.resultString)

(***************************************************************************)
(* The constructor as a step                                               *)
(***************************************************************************)
CallsIdle ==
    /\ pc = [i \in Calls |-> "idle"]
    /\ data = [i \in Calls |-> [query |-> Undefined]]
    /\ query = [i \in Calls |-> ""]
    /\ embeddings = [i \in Calls |-> <<>>]
    /\ resultString = [i \in Calls |-> ""]
    /\ outcome = [i \in Calls |-> Pending]
    /\ embedCalls = [i \in Calls |-> <<>>]
    /\ queryCalls = [i \in Calls |-> <<>>]
    /\ embedResp = [i \in Calls |-> NoEmbeddingResponse]
    /\ queryResp = [i \in Calls |-> NoQueryResponse]
    /\ logged = [i \in Calls |-> ""]
    /\ overlapped = FALSE

InitNew ==
    /\ fields \in Configs
    /\ env \in Configs
    /\ ctor = "new"
    /\ ctorError = ""
    /\ this = Blank
    /\ CallsIdle

\* new TNGDSearch(fields): the constructor is synchronous, one step.
New ==
    /\ ctor = "new"
    /\ \E rejects \in CredentialRejects(Resolve(fields, env).openAIApiKey) :
         LET r == TNGDSearch(fields, env, rejects)
         IN  /\ this' = r.object
             /\ ctorError' = r.error
             /\ ctor' = IF r.error = "" THEN "constructed" ELSE "threw"
    /\ UNCHANGED <<fields, env>>
    /\ UNCHANGED callVars

NextNew == New

SpecNew == InitNew /\ [][NextNew]_vars

(***************************************************************************)
(* Invocations of _call on a constructed tool                              *)
(***************************************************************************)
\* The deployment the invocations run under: nothing overridden, the keys and
\* the host in the environment, the default index.
Deployment ==
    [fields |-> NoConfig,
     env |-> [PINECONE_PROJECT_API_KEY |-> Str("key"), PINECONE_INDEX_NAME |-> Undefined,
              AZURE_API_KEY |-> Str("key"), AZURE_HOST |-> Str("set")]]

Init ==
    /\ fields = Deployment.fields
    /\ env = Deployment.env
    /\ ctor = "constructed"
    /\ ctorError = ""
    /\ this = TNGDSearch(fields, env, FALSE).object
    /\ CallsIdle

\* _call(d) up to its first await (lines 65-68 and 59): the parse, and for a
\* parsed query the getEmbeddings request.
Call(i, d) ==
    /\ pc[i] = "idle"
    /\ data' = [data EXCEPT ![i] = d]
    /\ overlapped' = (overlapped \/ \E j \in Calls : pc[j] \in {"embedding", "querying"})
    /\ LET p == SchemaParse(d)
       IN  IF p.ok
           THEN /\ query' = [query EXCEPT ![i] = p.query]
                /\ embedCalls' = [embedCalls EXCEPT
                                    ![i] = Append(@, EmbeddingsRequest(this, p.query))]
                /\ pc' = [pc EXCEPT ![i] = "embedding"]
                /\ UNCHANGED outcome
           ELSE /\ outcome' = [outcome EXCEPT ![i] = ParseOutsideTry(p.error)]
                /\ pc' = [pc EXCEPT ![i] = "threw"]
                /\ UNCHANGED <<query, embedCalls>>
    /\ UNCHANGED <<embeddings, resultString, queryCalls, embedResp, queryResp, logged>>
    /\ UNCHANGED ctorVars

\* getEmbeddings settles with r; _call runs to its second await (lines 59-61,
\* 68-74) or into its catch block (lines 89-91).
EmbeddingsSettle(i, r) ==
    /\ pc[i] = "embedding"
    /\ embedResp' = [embedResp EXCEPT ![i] = r]
    /\ LET e == QueryToEmbeddings(r)
       IN  IF e.ok
           THEN /\ embeddings' = [embeddings EXCEPT ![i] = e.value]
                /\ queryCalls' = [queryCalls EXCEPT
                                    ![i] = Append(@, QueryRequest(this, e.value))]
                /\ pc' = [pc EXCEPT ![i] = "querying"]
                /\ UNCHANGED <<outcome, logged>>
           ELSE /\ logged' = [logged EXCEPT ![i] = e.error]
                /\ outcome' = [outcome EXCEPT ![i] = Catch(e.error)]
                /\ pc' = [pc EXCEPT ![i] = "returned"]
                /\ UNCHANGED <<embeddings, queryCalls>>
    /\ UNCHANGED <<data, query, resultString, embedCalls, queryResp, overlapped>>
    /\ UNCHANGED ctorVars

\* index.query settles with r; _call runs to its end (lines 76-88) or into
\* its catch block (lines 89-91).
QuerySettle(i, r) ==
    /\ pc[i] = "querying"
    /\ queryResp' = [queryResp EXCEPT ![i] = r]
    /\ IF r.kind = "throw"
       THEN /\ logged' = [logged EXCEPT ![i] = r.error]
            /\ outcome' = [outcome EXCEPT ![i] = Catch(r.error)]
            /\ pc' = [pc EXCEPT ![i] = "returned"]
            /\ UNCHANGED resultString
       ELSE LET st == Loop([resultString |-> ResultStringDeclared(resultString, i),
                            firstResult |-> <<>>], r.matches)
            IN  /\ resultString' = [resultString EXCEPT ![i] = st.resultString]
                /\ outcome' = [outcome EXCEPT ![i] = ReturnValue(st)]
                /\ pc' = [pc EXCEPT ![i] = "returned"]
                /\ UNCHANGED logged
    /\ UNCHANGED <<data, query, embeddings, embedCalls, queryCalls, embedResp, overlapped>>
    /\ UNCHANGED ctorVars

Next ==
    \/ \E i \in Calls, d \in Inputs : Call(i, d)
    \/ \E i \in Calls, r \in EmbeddingResponses : EmbeddingsSettle(i, r)
    \/ \E i \in Calls, r \in QueryResponses : QuerySettle(i, r)

Spec == Init /\ [][Next]_vars

(***************************************************************************)
(* Properties                                                              *)
(***************************************************************************)
Settled(i) == pc[i] \in {"returned", "threw"}

\* The embedding step of invocation i failed: getEmbeddings rejected, or its
\* response held no record to read the vector from.
EmbeddingFailed(i) ==
    \/ embedResp[i].kind = "throw"
    \/ embedResp[i].kind = "ok" /\ embedResp[i].data = <<>>

QueryFailed(i) == queryResp[i].kind = "throw"

RECURSIVE Concatenation(_)
\* "Page Title: {page_title_k} Content: {content_k} " for k = 1..N, in order.
Concatenation(m) ==
    IF Len(m) = 0 THEN ""
    ELSE Concatenation(SubSeq(m, 1, Len(m) - 1))
         \o "Page Title: " \o m[Len(m)].metadata.page_title
         \o " Content: " \o m[Len(m)].metadata.content \o " "

\* C1: an invocation whose embedding call or vector-search call threw has
\* returned exactly "There was an error with the Pinecone search." and has
\* not raised, whichever call failed and whatever the error.
C1_ServiceErrorSentinel ==
    \A i \in Calls :
        (EmbeddingFailed(i) \/ QueryFailed(i)) =>
            /\ pc[i] = "returned"
            /\ outcome[i] = [kind |-> "return", error |-> "",
                             text |-> "There was an error with the Pinecone search."]

C1_Witness ==
    \E i, j \in Calls :
        /\ embedResp[i].kind = "throw" /\ embedResp[i].error = "ETIMEDOUT"
        /\ queryResp[j].kind = "throw" /\ queryResp[j].error = "401 Unauthorized"
        /\ outcome[i].text = ErrorText /\ outcome[j].text = ErrorText

\* C2: an invocation whose input has a missing or non-string query has raised
\* a validation error (not a sentinel text), and has called neither the
\* embedding service nor the vector-search service.
C2_ValidationRaises ==
    \A i \in Calls :
        (pc[i] # "idle" /\ data[i].query.type # "string") =>
            /\ pc[i] = "threw"
            /\ outcome[i].kind = "throw" /\ outcome[i].error = ZodError
            /\ Len(embedCalls[i]) = 0 /\ Len(queryCalls[i]) = 0

C2_Witness ==
    \E i, j \in Calls :
        /\ pc[i] = "threw" /\ data[i].query.type = "undefined"
        /\ pc[j] = "threw" /\ data[j].query.type = "number"

\* C3: an invocation whose vector search returned N >= 1 matches has returned
\* the concatenation of their fragments in the order received.
C3_ConcatenationInOrder ==
    \A i \in Calls :
        (queryResp[i].kind = "ok" /\ Len(queryResp[i].matches) >= 1) =>
            /\ pc[i] = "returned"
            /\ outcome[i] = [kind |-> "return", error |-> "",
                             text |-> Concatenation(queryResp[i].matches)]

C3_Witness ==
    \E i \in Calls :
        /\ data[i] = [query |-> Str("capital of France")]
        /\ Len(queryResp[i].matches) = 2
        /\ queryResp[i].matches[1].metadata.page_title = "Paris"
        /\ outcome[i].text = "Page Title: Paris Content: Paris is the capital. "
                               \o "Page Title: France Content: France is a country. "

\* C4: an invocation whose embedding call succeeded and whose vector search
\* returned zero matches has returned exactly "No results found for the
\* query.".
C4_NoResultsSentinel ==
    \A i \in Calls :
        (queryResp[i].kind = "ok" /\ Len(queryResp[i].matches) = 0) =>
            /\ pc[i] = "returned"
            /\ outcome[i] = [kind |-> "return", error |-> "",
                             text |-> "No results found for the query."]

C4_Witness ==
    \E i \in Calls :
        /\ embedResp[i].kind = "ok" /\ queryResp[i].kind = "ok"
        /\ queryResp[i].matches = <<>>
        /\ outcome[i].text = NoResults

\* C5 as stated: no invocation raises, whatever its input and whatever the
\* services do.
C5_NeverRaises ==
    \A i \in Calls : pc[i] # "threw" /\ outcome[i].kind # "throw"

\* C5 amended: an invocation whose input passes the schema never raises,
\* whatever the services do: a failure of the embedding or the search step is
\* logged and converted to the error sentinel, and the invocation ends by
\* returning text.  An input that fails the schema raises a validation error.
C5_ValidInputNeverRaises ==
    \A i \in Calls :
        (pc[i] # "idle" /\ data[i].query.type = "string") =>
            /\ pc[i] # "threw"
            /\ outcome[i].kind \in {"pending", "return"}
            /\ pc[i] = "returned" => outcome[i].kind = "return"
            /\ logged[i] # "" => outcome[i] = Returned(ErrorText)

C5_Witness ==
    \E i \in Calls :
        /\ data[i].query.type = "string"
        /\ logged[i] = TypeError
        /\ pc[i] = "returned" /\ outcome[i].kind = "return"

\* Neither an override field nor an environment variable gives the key.
AzureKeyAbsent == fields.AZURE_API_KEY = Undefined /\ env.AZURE_API_KEY = Undefined
PineconeKeyAbsent ==
    fields.PINECONE_PROJECT_API_KEY = Undefined /\ env.PINECONE_PROJECT_API_KEY = Undefined
PineconeKeyGiven ==
    Truthy(fields.PINECONE_PROJECT_API_KEY) \/ Truthy(env.PINECONE_PROJECT_API_KEY)

C7_FailsWithPineconeKeyError ==
    (ctor # "new" /\ PineconeKeyAbsent) =>
        /\ ctor = "threw"
        /\ ctorError = "Missing PINECONE_PROJECT_API_KEY environment variable."
        /\ ~this.index.made

\* C8 as stated: the embedding service is never called with the empty
\* string.
C8_QueryNeverEmpty ==
    \A i \in Calls : \A k \in DOMAIN embedCalls[i] : embedCalls[i][k].input # ""

\* C8 amended: the query handed to the embedding service is always a string,
\* the query field of the invocation's input as given; the schema rejects a
\* missing or non-string query and takes the empty string.
C8_QueryIsTheInputString ==
    \A i \in Calls : \A k \in DOMAIN embedCalls[i] :
        /\ data[i].query.type = "string"
        /\ embedCalls[i][k].input = data[i].query.val
        /\ embedCalls[i][k].model = "text-embedding-3-large"

C8_Witness ==
    \E i \in Calls :
        /\ data[i] = [query |-> Str("")]
        /\ Len(embedCalls[i]) = 1
        /\ embedCalls[i][1].input = ""

\* What an invocation given d does when it runs alone and the services
\* answer er and qr: its requests and how it ends.
AloneEmbedCalls(d) ==
    IF d.query.type = "string"
    THEN <<[client |-> TNGDSearch(fields, env, FALSE).object.openAIClient,
            model |-> "text-embedding-3-large", input |-> d.query.val]>>
    ELSE <<>>

AloneQueryCalls(d, er) ==
    IF d.query.type = "string" /\ er.kind = "ok" /\ er.data # <<>>
    THEN <<[index |-> TNGDSearch(fields, env, FALSE).object.index,
            vector |-> er.data[1].embedding, topK |-> 3, includeMetadata |-> TRUE]>>
    ELSE <<>>

AloneOutcome(d, er, qr) ==
    IF d.query.type # "string" THEN Thrown(ZodError)
    ELSE IF er.kind # "ok" \/ er.data = <<>> \/ qr.kind # "ok" THEN Returned(ErrorText)
    ELSE IF qr.matches = <<>> THEN Returned(NoResults)
    ELSE Returned(Concatenation(qr.matches))

\* C9: under every interleaving of the invocations at their awaits, each
\* invocation that has ended made the requests and ended the way it would
\* alone with its input and the responses it got, and the tool object is as
\* the constructor left it.
C9_InvocationsIsolated ==
    /\ this = TNGDSearch(fields, env, FALSE).object
    /\ \A i \in Calls :
          Settled(i) =>
              /\ embedCalls[i] = AloneEmbedCalls(data[i])
              /\ queryCalls[i] = AloneQueryCalls(data[i], embedResp[i])
              /\ outcome[i] = AloneOutcome(data[i], embedResp[i], queryResp[i])

C9_Witness ==
    /\ overlapped
    /\ \A i \in Calls : pc[i] = "returned" /\ Len(queryResp[i].matches) >= 1
    /\ \E i, j \in Calls : outcome[i].text # outcome[j].text

\* C10: an invocation issues at most one embedding request and at most one
\* vector-search request; the vector-search request is issued only once the
\* embedding request has succeeded, with the vector of the first record of
\* the embedding response, topK = 3 and includeMetadata = true; after a
\* failed embedding request none is issued.
C10_OneRequestEach ==
    \A i \in Calls :
        /\ Len(embedCalls[i]) <= 1
        /\ Len(queryCalls[i]) <= 1
        /\ pc[i] \in {"idle", "embedding"} => queryCalls[i] = <<>>
        /\ EmbeddingFailed(i) => queryCalls[i] = <<>>
        /\ \A k \in DOMAIN queryCalls[i] :
              /\ Len(embedCalls[i]) = 1
              /\ embedResp[i].kind = "ok"
              /\ Len(embedResp[i].data) >= 1
              /\ queryCalls[i][k].vector = embedResp[i].data[1].embedding
              /\ queryCalls[i][k].topK = 3
              /\ queryCalls[i][k].includeMetadata = TRUE

C10_Witness ==
    \E i, j \in Calls :
        /\ Len(embedResp[i].data) = 2
        /\ Len(queryCalls[i]) = 1 /\ queryCalls[i][1].vector = V2
        /\ pc[i] = "returned"
        /\ embedResp[j].kind = "throw" /\ pc[j] = "returned"

====
